---- MODULE Spec2Model ----
(***************************************************************************)
(* Game of Life engine (GameOfLifeModel in game.py), the pattern loader    *)
(* (presets.py) and the application around them (GameApp in game.py), as   *)
(* a state machine.                                                        *)
(*                                                                         *)
(* The grid is the numpy array self.grid of shape (h, w), dtype uint8; it  *)
(* is modelled as a function from <<row, col>> to its byte value.          *)
(***************************************************************************)
EXTENDS Integers, Sequences, FiniteSets, TLC

VARIABLES
    w,            \* self.w: number of columns
    h,            \* self.h: number of rows
    grid,         \* self.grid
    survive,      \* self.survive
    born,         \* self.born
    generation,   \* self.generation
    op,           \* history: the last call made on the engine and its arguments
    pre,          \* history: the engine's fields just before that call
    raised,       \* history: whether that call ended by raising an exception
    ticks,        \* history: tick() calls since the last reset()/set_rules()/pattern load
    base,         \* history: the last call other than tick(), the grid it left,
                  \*          and the tick() calls since
    running,      \* GameApp.running
    speed,        \* GameApp.speed
    accumulator,  \* run(): accumulator, in milliseconds
    selected,     \* Button.selected of the rule buttons, in the order of RULE_PRESETS
    startText,    \* Button.text of the START/PAUSE button
    pc,           \* where the application is: in __init__, in the loop of run(), or gone
    pending,      \* tick(): the mask surv | born between the two writes to the grid
    frameTicks,   \* history: tick() calls made in the current frame of run()
    ctor          \* history: the arguments GameApp was constructed with

engineVars == <<w, h, grid, survive, born, generation>>

historyVars == <<op, pre, raised, ticks, base>>

appVars == <<running, speed, accumulator, selected, startText, pc, pending,
             frameTicks, ctor>>

vars == <<w, h, grid, survive, born, generation, op, pre, raised, ticks, base,
          running, speed, accumulator, selected, startText, pc, pending,
          frameTicks, ctor>>

----------------------------------------------------------------------------
(* Bounds of the exploration *)

\* Main specification: grids of at most MaxCells cells (every shape w x h).
MaxCells == 5
\* tick() is applied while generation < MaxGen.
MaxGen == 2
\* The transition is checked on every grid of at most MaxTickCells cells.
MaxTickCells == 9
\* The single-cell grids are 3 .. MaxOriginDim wide and high.
MaxOriginDim == 5
\* The glider runs on grids 5 .. MaxGliderDim wide and high, for MaxGliderGen
\* ticks after its load.
MaxGliderDim == 7
MaxGliderGen == 4
\* The block sits on grids 4 .. MaxBlockDim wide and high.
MaxBlockDim == 5

\* Cells of the largest grid of the rule-set specification
MaxRuleCells == 4

\* The oscillators sit on grids 18 .. MaxOscDim wide and high, for at most
\* MaxOscTicks ticks after a load.
MaxOscDim == 19
MaxOscTicks == 17

\* The application makes at most MaxAppGen ticks.
MaxAppGen == 1

----------------------------------------------------------------------------
(* Configuration of the application (game.py) *)

CELL_SIZE == 15
GRID_W == 100
GRID_H == 80
WINDOW_W == GRID_W * CELL_SIZE + 220
WINDOW_H == GRID_H * CELL_SIZE + 40

----------------------------------------------------------------------------
(* numpy helpers *)

Byte == 256

Cells(hh, ww) == (0 .. hh - 1) \X (0 .. ww - 1)

\* np.zeros((h, w), dtype=np.uint8)
Zeros(hh, ww) == [p \in Cells(hh, ww) |-> 0]

\* Mutant: a shift that does not wrap; cells shifted in from outside are dead.
RollNoWrap(a, shift, axis) ==
    IF axis = 0
    THEN [p \in DOMAIN a |->
             IF 0 <= p[1] - shift /\ p[1] - shift < h
             THEN a[<<p[1] - shift, p[2]>>] ELSE 0]
    ELSE [p \in DOMAIN a |->
             IF 0 <= p[2] - shift /\ p[2] - shift < w
             THEN a[<<p[1], p[2] - shift>>] ELSE 0]

\* np.roll(a, shift, axis): result[i] = a[(i - shift) mod n] along the axis.
\* The array's shape is (h, w).
Roll(a, shift, axis) ==
    IF axis = 0
    THEN [p \in DOMAIN a |-> a[<<(p[1] - shift) % h, p[2]>>]]
    ELSE [p \in DOMAIN a |-> a[<<p[1], (p[2] - shift) % w>>]]

\* Mutant: only the four orthogonal neighbours are counted.
ShiftsOrthogonal == << <<-1, 0>>, <<0, -1>>, <<0, 1>>, <<1, 0>> >>

\* The (dy, dx) pairs of the generator in tick(), in its order.
Shifts ==
    << <<-1, -1>>, <<-1, 0>>, <<-1, 1>>,
       << 0, -1>>,            << 0, 1>>,
       << 1, -1>>, << 1, 0>>, << 1, 1>> >>

\* sum(...) over the first k rolled copies of the grid, in uint8 arithmetic.
RECURSIVE SumRolls(_, _)
SumRolls(a, k) ==
    IF k = 0
    THEN [p \in DOMAIN a |-> 0]
    ELSE LET acc == SumRolls(a, k - 1)
             r   == Roll(Roll(a, Shifts[k][1], 0), Shifts[k][2], 1)
         IN  [p \in DOMAIN a |-> (acc[p] + r[p]) % Byte]

\* Mutant: the cell itself is counted among its neighbours.
NCountWithSelf(a) ==
    LET n == SumRolls(a, Len(Shifts))
    IN  [p \in DOMAIN a |-> (n[p] + a[p]) % Byte]

\* ncount of tick()
NCount(a) == SumRolls(a, Len(Shifts))

\* Mutant: the cells are updated one after another in row order, each from
\* the grid as updated so far, instead of all from the grid before the tick.
RECURSIVE UpdateFrom(_, _, _, _)
UpdateFrom(a, k, surv, brn) ==
    IF k = h * w
    THEN a
    ELSE LET p == <<k \div w, k % w>>
             n == NCount(a)[p]
             v == IF (a[p] = 1 /\ n \in surv) \/ (a[p] = 0 /\ n \in brn)
                  THEN 1 ELSE 0
         IN  UpdateFrom([a EXCEPT ![p] = v], k + 1, surv, brn)

TickGridInPlace(a, surv, brn) == UpdateFrom(a, 0, surv, brn)

\* The grid tick() leaves: surv | born set to 1, everything else 0.
TickGrid(a, surv, brn) ==
    LET ncount == NCount(a)
        s == [p \in DOMAIN a |-> a[p] = 1 /\ ncount[p] \in surv]
        b == [p \in DOMAIN a |-> a[p] = 0 /\ ncount[p] \in brn]
    IN  [p \in DOMAIN a |-> IF s[p] \/ b[p] THEN 1 ELSE 0]

\* Mutant: |= 1 instead of ^= 1.
Or1(v) == IF v % 2 = 0 THEN v + 1 ELSE v

\* v ^ 1 on a byte
Xor1(v) == IF v % 2 = 0 THEN v + 1 ELSE v - 1

----------------------------------------------------------------------------
(* Rule strings: a Python str is a sequence of one-character strings *)

DigitChars == <<"0", "1", "2", "3", "4", "5", "6", "7", "8", "9">>

IsDigit(c) == \E i \in 1 .. Len(DigitChars) : DigitChars[i] = c

\* int(c) for a one-character string that is a decimal digit
IntOf(c) == (CHOOSE i \in 1 .. Len(DigitChars) : DigitChars[i] = c) - 1

\* str.split('/'): the pieces between the separators
RECURSIVE Split(_)
Split(s) ==
    IF \A i \in 1 .. Len(s) : s[i] # "/"
    THEN <<s>>
    ELSE LET k == CHOOSE i \in 1 .. Len(s) :
                      s[i] = "/" /\ \A j \in 1 .. i - 1 : s[j] # "/"
         IN  <<SubSeq(s, 1, k - 1)>> \o Split(SubSeq(s, k + 1, Len(s)))

AllDigits(s) == \A i \in 1 .. Len(s) : IsDigit(s[i])

\* Mutant: only the first character is converted.
DigitSetFirst(s) == IF s = <<>> THEN {} ELSE {IntOf(s[1])}

\* {int(c) for c in s}
DigitSet(s) == {IntOf(s[i]) : i \in 1 .. Len(s)}

----------------------------------------------------------------------------
(* numpy indexing: a[i] on an axis of length n *)

\* An index numpy accepts: -n <= i < n; anything else raises IndexError.
ValidIndex(i, n) == -n <= i /\ i < n

\* The position a valid index denotes: negative indices count from the end.
NormIndex(i, n) == IF i < 0 THEN i + n ELSE i

----------------------------------------------------------------------------
(* History bookkeeping (not program state) *)

Fields == [w |-> w, h |-> h, grid |-> grid, survive |-> survive,
           born |-> born, generation |-> generation]

\* Record a call: what was called, with what, from which state, and whether
\* it raised.  (Used after the call's effect on the grid.)
Call(name, args, exc) ==
    /\ op' = [name |-> name, args |-> args]
    /\ pre' = Fields
    /\ raised' = exc
    /\ base' = IF name = "tick"
               THEN [base EXCEPT !.ticks = @ + 1]
               ELSE [name |-> name, args |-> args, grid |-> grid', ticks |-> 0]

\* No application around the engine: the engine used on its own
NoPending == [mask |-> {}, busy |-> FALSE]

NoPattern == [coords |-> <<>>, width |-> 0, height |-> 0]

NoApp ==
    /\ running = FALSE
    /\ speed = 0
    /\ accumulator = 0
    /\ selected = <<>>
    /\ startText = ""
    /\ pc = "engine"
    /\ pending = NoPending
    /\ frameTicks = 0
    /\ ctor = [pattern |-> NoPattern, rule |-> <<>>]

NoAppStep == UNCHANGED appVars

----------------------------------------------------------------------------
(* GameOfLifeModel *)

\* __init__(w, h)
Construct(ww, hh) ==
    /\ w = ww
    /\ h = hh
    /\ grid = Zeros(hh, ww)
    /\ survive = {2, 3}
    /\ born = {3}
    /\ generation = 0

\* Mutant: the counter is not advanced.
GenerationKept(g) == g

\* self.generation += 1
NextGeneration(g) == g + 1

\* tick()
Tick ==
    /\ grid' = TickGrid(grid, survive, born)
    /\ generation' = NextGeneration(generation)
    /\ UNCHANGED <<w, h, survive, born>>
    /\ Call("tick", <<>>, FALSE)
    /\ ticks' = ticks + 1

\* Mutant: the lower bounds are not tested.
InRangeUpperOnly(x, y) == x < w /\ y < h

\* The guard of toggle_cell
InRange(x, y) == 0 <= x /\ x < w /\ 0 <= y /\ y < h

\* self.grid[y, x] ^= 1
ToggleAt(a, x, y) ==
    [a EXCEPT ![<<NormIndex(y, h), NormIndex(x, w)>>] = Xor1(@)]

\* toggle_cell(x, y)
ToggleCell(x, y) ==
    /\ IF InRange(x, y)
       THEN grid' = ToggleAt(grid, x, y)
       ELSE grid' = grid
    /\ UNCHANGED <<w, h, survive, born, generation>>
    /\ Call("toggle_cell", <<x, y>>, FALSE)
    /\ ticks' = ticks

\* Mutant: the array is left as it is.
FillNothing(a, v) == a

\* self.grid.fill(v)
Fill(a, v) == [p \in DOMAIN a |-> v]

\* The generation reset() leaves
ResetGeneration == 0

\* reset()
Reset ==
    /\ grid' = Fill(grid, 0)
    /\ generation' = ResetGeneration
    /\ UNCHANGED <<w, h, survive, born>>
    /\ Call("reset", <<>>, FALSE)
    /\ ticks' = 0

\* What set_rules(rule_str) leaves, and whether it raised.  The unpacking
\* s, b = ... raises unless split gives exactly two pieces; int(c) raises on a
\* character that is not a digit, in the first comprehension before anything
\* is assigned, in the second after self.survive has been assigned.
SetRulesResult(rule_str) ==
    LET parts == Split(rule_str)
        same  == [survive |-> survive, born |-> born, grid |-> grid,
                  generation |-> generation, raised |-> TRUE]
    IN  IF Len(parts) # 2 THEN same
        ELSE IF ~AllDigits(parts[1]) THEN same
        ELSE IF ~AllDigits(parts[2])
             THEN [same EXCEPT !.survive = DigitSet(parts[1])]
        ELSE [survive |-> DigitSet(parts[1]), born |-> DigitSet(parts[2]),
              grid |-> Fill(grid, 0), generation |-> ResetGeneration,
              raised |-> FALSE]

\* set_rules(rule_str)
SetRules(rule_str) ==
    LET res == SetRulesResult(rule_str)
    IN  /\ survive' = res.survive
        /\ born' = res.born
        /\ grid' = res.grid
        /\ generation' = res.generation
        /\ UNCHANGED <<w, h>>
        /\ Call("set_rules", rule_str, res.raised)
        /\ ticks' = IF res.raised THEN ticks ELSE 0

----------------------------------------------------------------------------
(* presets.py *)

\* Mutant: the pattern is put at the top left corner, not centred.
OriginCorner(size, extent) == 0

\* Mutant: the operands are swapped.
OriginSwapped(size, extent) == (extent - size) \div 2

\* ox = (model.w - width) // 2, oy likewise (floor division)
Origin(size, extent) == (size - extent) \div 2

\* The loop of _apply_coords over the rest of coords: model.grid[oy+y, ox+x] = 1,
\* stopping at the first index numpy rejects.
RECURSIVE Stamp(_, _, _, _)
Stamp(a, coords, ox, oy) ==
    IF coords = <<>>
    THEN [grid |-> a, raised |-> FALSE]
    ELSE LET i == oy + Head(coords)[2]
             j == ox + Head(coords)[1]
         IN  IF ValidIndex(i, h) /\ ValidIndex(j, w)
             THEN Stamp([a EXCEPT ![<<NormIndex(i, h), NormIndex(j, w)>>] = 1],
                        Tail(coords), ox, oy)
             ELSE [grid |-> a, raised |-> TRUE]

\* The grid _apply_coords leaves on an engine of the current shape
ApplyResult(a, coords, width, height) ==
    Stamp(Fill(a, 0), coords, Origin(w, width), Origin(h, height))

\* _apply_coords(model, coords, width, height)
ApplyCoords(coords, width, height) ==
    LET res == ApplyResult(grid, coords, width, height)
    IN  /\ grid' = res.grid
        /\ generation' = ResetGeneration
        /\ UNCHANGED <<w, h, survive, born>>
        /\ Call("apply_coords",
                [coords |-> coords, width |-> width, height |-> height],
                res.raised)
        /\ ticks' = 0

\* The presets: coords, width, height as passed to _apply_coords
BeaconPreset ==
    [coords |-> << <<0, 0>>, <<1, 0>>, <<0, 1>>, <<1, 1>>,
                   <<2, 2>>, <<3, 2>>, <<2, 3>>, <<3, 3>> >>,
     width |-> 4, height |-> 4]

GliderPreset ==
    [coords |-> << <<1, 0>>, <<2, 1>>, <<0, 2>>, <<1, 2>>, <<2, 2>> >>,
     width |-> 3, height |-> 3]

PentadecathlonPreset ==
    [coords |-> [i \in 1 .. 10 |-> <<i - 1, 0>>], width |-> 10, height |-> 1]

\* pulsar
PulsarPreset ==
    [coords |-> << <<2, 0>>, <<3, 0>>, <<4, 0>>, <<8, 0>>, <<9, 0>>, <<10, 0>>,
                   <<0, 2>>, <<5, 2>>, <<7, 2>>, <<12, 2>>,
                   <<0, 3>>, <<5, 3>>, <<7, 3>>, <<12, 3>>,
                   <<0, 4>>, <<5, 4>>, <<7, 4>>, <<12, 4>>,
                   <<2, 5>>, <<3, 5>>, <<4, 5>>, <<8, 5>>, <<9, 5>>, <<10, 5>>,
                   <<2, 7>>, <<3, 7>>, <<4, 7>>, <<8, 7>>, <<9, 7>>, <<10, 7>>,
                   <<0, 8>>, <<5, 8>>, <<7, 8>>, <<12, 8>>,
                   <<0, 9>>, <<5, 9>>, <<7, 9>>, <<12, 9>>,
                   <<0, 10>>, <<5, 10>>, <<7, 10>>, <<12, 10>>,
                   <<2, 12>>, <<3, 12>>, <<4, 12>>, <<8, 12>>, <<9, 12>>,
                   <<10, 12>> >>,
     width |-> 13, height |-> 13]

\* gosper_glider_gun
GosperPreset ==
    [coords |-> << <<1, 5>>, <<1, 6>>, <<2, 5>>, <<2, 6>>,
                   <<11, 5>>, <<11, 6>>, <<11, 7>>, <<12, 4>>, <<12, 8>>,
                   <<13, 3>>, <<13, 9>>, <<14, 3>>, <<14, 9>>, <<15, 6>>,
                   <<16, 4>>, <<16, 8>>, <<17, 5>>, <<17, 6>>, <<17, 7>>,
                   <<18, 6>>,
                   <<21, 3>>, <<21, 4>>, <<21, 5>>, <<22, 3>>, <<22, 4>>,
                   <<22, 5>>, <<23, 2>>, <<23, 6>>, <<25, 1>>, <<25, 2>>,
                   <<25, 6>>, <<25, 7>>,
                   <<35, 3>>, <<35, 4>>, <<36, 3>>, <<36, 4>> >>,
     width |-> 37, height |-> 10]

----------------------------------------------------------------------------
(* Inputs *)

\* Grid shapes <<w, h>> of at most n cells
Shapes(n) == {s \in (1 .. n) \X (1 .. n) : s[1] * s[2] <= n}

\* RULE_PRESETS
RULE_PRESETS ==
    << <<"2", "3", "/", "3">>,
       <<"2", "3", "4", "/", "3", "4">>,
       <<"1", "3", "5", "7", "/", "1", "3", "5", "7">>,
       <<"2", "4", "5", "/", "3", "6", "8">> >>

\* Well-formed rule strings given to set_rules: a preset, and either side empty.
RuleInputs ==
    { RULE_PRESETS[3], <<"/", "1">>, <<"0", "8", "/">> }

\* Coordinates given to toggle_cell: every cell, and one step outside each edge.
ToggleXs == -1 .. w
ToggleYs == -1 .. h

\* A set of offsets as a list, in row order
RECURSIVE ListOf(_)
ListOf(S) ==
    IF S = {}
    THEN <<>>
    ELSE LET m == CHOOSE p \in S :
                      \A q \in S : p[2] < q[2] \/ (p[2] = q[2] /\ p[1] <= q[1])
         IN  <<m>> \o ListOf(S \ {m})

\* The offsets of a box of bw columns and bh rows
Box(bw, bh) == (0 .. bw - 1) \X (0 .. bh - 1)

\* Patterns on a box: no cell, each single cell, and the whole box.
BoxPatterns(bw, bh) ==
    { [coords |-> c, width |-> bw, height |-> bh] :
        c \in {<<>>, ListOf(Box(bw, bh))} \cup {<<o>> : o \in Box(bw, bh)} }

\* Patterns that fit the grid
FittingPatterns ==
    UNION { BoxPatterns(bw, bh) : <<bw, bh>> \in (1 .. w) \X (1 .. h) }

\* A single cell
DotPattern == [coords |-> << <<0, 0>> >>, width |-> 1, height |-> 1]

\* Pattern loads of the main specification: one that always fits, and a preset
\* whatever the grid's size.
PatternInputs == {DotPattern, GliderPreset}

----------------------------------------------------------------------------
(* The engine under every call of its interface *)

NoCall == [name |-> "init", args |-> <<>>]

History ==
    /\ op = NoCall
    /\ pre = Fields
    /\ raised = FALSE
    /\ ticks = 0
    /\ base = [name |-> "init", args |-> <<>>, grid |-> grid, ticks |-> 0]

Init ==
    /\ \E s \in Shapes(MaxCells) : Construct(s[1], s[2])
    /\ History
    /\ NoApp

Next ==
    \/ generation < MaxGen /\ Tick /\ NoAppStep
    \/ \E x \in ToggleXs, y \in ToggleYs : ToggleCell(x, y) /\ NoAppStep
    \/ Reset /\ NoAppStep
    \/ \E r \in RuleInputs : SetRules(r) /\ NoAppStep
    \/ \E p \in PatternInputs : ApplyCoords(p.coords, p.width, p.height) /\ NoAppStep

Spec == Init /\ [][Next]_vars

----------------------------------------------------------------------------
(* Properties of the engine's interface *)

ResettingCalls == {"reset", "set_rules", "apply_coords"}

\* C3: generation is the number of tick() calls since the last reset, set_rules
\* or pattern load (since construction if none): a tick adds exactly 1,
\* toggle_cell leaves it as it was, and it goes down only to 0, by a reset.
C3_GenerationCountsTicks ==
    /\ generation = ticks
    /\ op.name = "tick" => generation = pre.generation + 1
    /\ op.name = "toggle_cell" => generation = pre.generation
    /\ generation < pre.generation =>
           generation = 0 /\ op.name \in ResettingCalls

\* Two ticks, then a toggle: the count is still 2.
C3_Witness ==
    op.name = "toggle_cell" /\ pre.generation = 2 /\ generation = 2 /\ ticks = 2

AllDead(a, hh, ww) == DOMAIN a = Cells(hh, ww) /\ \A p \in Cells(hh, ww) : a[p] = 0

SomeAlive(a) == \E p \in DOMAIN a : a[p] = 1

\* C4: reset() leaves every cell dead and generation 0, and survive, born, w
\* and h as they were.
C4_ResetClears ==
    op.name = "reset" =>
        /\ AllDead(grid, pre.h, pre.w)
        /\ generation = 0
        /\ survive = pre.survive /\ born = pre.born
        /\ w = pre.w /\ h = pre.h
        /\ ~raised

\* reset() from a grid with live cells, generation > 0 and a rule that is not
\* the default.
C4_Witness ==
    /\ op.name = "reset"
    /\ SomeAlive(pre.grid)
    /\ pre.generation > 0
    /\ pre.survive # {2, 3}

\* A rule string "S/B": one '/', decimal digits around it.
WellFormed(r) ==
    /\ Cardinality({i \in 1 .. Len(r) : r[i] = "/"}) = 1
    /\ \A i \in 1 .. Len(r) :
           r[i] = "/" \/ \E d \in 0 .. 9 : r[i] = ToString(d)

SlashAt(r) == CHOOSE i \in 1 .. Len(r) : r[i] = "/"

\* The digits written at the positions I of r
DigitsAt(r, I) == {d \in 0 .. 9 : \E i \in I : r[i] = ToString(d)}

\* C5: set_rules("S/B") leaves survive the set of digits of S, born the set of
\* digits of B, every cell dead and generation 0, whatever the state before.
C5_SetRulesReplacesAndResets ==
    (op.name = "set_rules" /\ WellFormed(op.args)) =>
        /\ survive = DigitsAt(op.args, 1 .. SlashAt(op.args) - 1)
        /\ born = DigitsAt(op.args, SlashAt(op.args) + 1 .. Len(op.args))
        /\ AllDead(grid, pre.h, pre.w)
        /\ generation = 0
        /\ ~raised

\* set_rules with an empty S, from a grid with live cells, generation > 0 and
\* another rule.
C5_Witness ==
    /\ op.name = "set_rules"
    /\ op.args = <<"/", "1">>
    /\ SomeAlive(pre.grid)
    /\ pre.generation > 0
    /\ pre.survive # {} /\ pre.born # {1}
    /\ survive = {} /\ born = {1}

\* C6: toggle_cell(x, y) with (x, y) in range flips the cell at row y, column x
\* and nothing else; the same call made twice in a row restores the whole
\* engine state.
C6_ToggleFlipsOneCell ==
    [][ (op'.name = "toggle_cell"
            /\ 0 <= op'.args[1] /\ op'.args[1] < w
            /\ 0 <= op'.args[2] /\ op'.args[2] < h) =>
          /\ DOMAIN grid' = Cells(h, w)
          /\ \A p \in Cells(h, w) :
                 grid'[p] = IF p = <<op'.args[2], op'.args[1]>>
                            THEN 1 - grid[p]
                            ELSE grid[p]
          /\ generation' = generation
          /\ survive' = survive /\ born' = born
          /\ w' = w /\ h' = h
          /\ ~raised'
          /\ op = op' => Fields' = pre ]_vars

\* A live cell toggled dead beside a live cell that stayed.
C6_Witness ==
    /\ op.name = "toggle_cell"
    /\ 0 <= op.args[1] /\ op.args[1] < w
    /\ 0 <= op.args[2] /\ op.args[2] < h
    /\ pre.grid[<<op.args[2], op.args[1]>>] = 1
    /\ grid[<<op.args[2], op.args[1]>>] = 0
    /\ SomeAlive(grid)
    /\ generation > 0

\* C7: toggle_cell(x, y) with x < 0, x >= W, y < 0 or y >= H returns without
\* error and changes nothing; a negative index does not wrap to the far edge.
C7_OutOfRangeIgnored ==
    (op.name = "toggle_cell"
        /\ (op.args[1] < 0 \/ op.args[1] >= pre.w
            \/ op.args[2] < 0 \/ op.args[2] >= pre.h)) =>
        /\ ~raised
        /\ grid = pre.grid
        /\ generation = pre.generation
        /\ survive = pre.survive /\ born = pre.born

\* toggle_cell(-1, y) while the cell at the far end of row y is alive.
C7_Witness ==
    /\ op.name = "toggle_cell"
    /\ op.args[1] = -1
    /\ 0 <= op.args[2] /\ op.args[2] < h
    /\ grid[<<op.args[2], w - 1>>] = 1
    /\ w > 1

----------------------------------------------------------------------------
(* Pattern loading from every prior state *)

\* Rule strings of this specification
PatternRuleInputs == { <<"/", "1">> }

NextPattern ==
    \/ generation < MaxGen /\ Tick /\ NoAppStep
    \/ \E x \in 0 .. w - 1, y \in 0 .. h - 1 : ToggleCell(x, y) /\ NoAppStep
    \/ \E r \in PatternRuleInputs : SetRules(r) /\ NoAppStep
    \/ \E p \in FittingPatterns : ApplyCoords(p.coords, p.width, p.height) /\ NoAppStep

SpecPattern == Init /\ [][NextPattern]_vars

\* The argument of an apply_coords call is within the contract: the box fits
\* the grid and every offset is in the box.
Fits(a) ==
    /\ a.width <= pre.w /\ a.height <= pre.h
    /\ \A i \in 1 .. Len(a.coords) :
           /\ 0 <= a.coords[i][1] /\ a.coords[i][1] < a.width
           /\ 0 <= a.coords[i][2] /\ a.coords[i][2] < a.height

\* C10: applying a pattern (coords, width, height) that fits leaves alive
\* exactly the cells at column (W - width) div 2 + dx, row (H - height) div 2 + dy
\* for the offsets (dx, dy) of coords, every other cell dead, generation 0, and
\* survive and born as they were.
C10_PatternCentred ==
    (op.name = "apply_coords" /\ Fits(op.args)) =>
        /\ DOMAIN grid = Cells(pre.h, pre.w)
        /\ \A p \in Cells(pre.h, pre.w) :
               grid[p] =
                   IF \E i \in 1 .. Len(op.args.coords) :
                          /\ p[2] = (pre.w - op.args.width) \div 2 + op.args.coords[i][1]
                          /\ p[1] = (pre.h - op.args.height) \div 2 + op.args.coords[i][2]
                   THEN 1
                   ELSE 0
        /\ generation = 0
        /\ survive = pre.survive /\ born = pre.born
        /\ ~raised

\* A one-cell pattern in a box narrower than the grid, loaded over live cells
\* at generation > 0 under a rule that is not the default: the cell lands away
\* from column 0.
C10_Witness ==
    /\ op.name = "apply_coords"
    /\ Fits(op.args)
    /\ Len(op.args.coords) = 1
    /\ (pre.w - op.args.width) \div 2 > 0
    /\ SomeAlive(pre.grid)
    /\ pre.generation > 0
    /\ pre.born = {1}
    /\ SomeAlive(grid)

----------------------------------------------------------------------------
(* The transition on every grid *)

\* Rules of the engine in this specification: the four presets and one more, so
\* that every count 0..8 is in survive under some rule and out of it under
\* another, and likewise for born.
TickRules ==
    { RULE_PRESETS[i] : i \in 1 .. Len(RULE_PRESETS) }
        \cup { <<"0", "1", "6", "7", "8", "/", "0", "2", "4", "7">> }

\* An engine of any shape of at most MaxTickCells cells, with any grid content
\* (toggle_cell reaches each) and a rule set by set_rules.
InitTick ==
    /\ \E s \in Shapes(MaxTickCells), r \in TickRules :
           /\ w = s[1]
           /\ h = s[2]
           /\ grid \in [Cells(s[2], s[1]) -> {0, 1}]
           /\ survive = DigitSet(Split(r)[1])
           /\ born = DigitSet(Split(r)[2])
           /\ generation = 0
    /\ History
    /\ NoApp

NextTick == generation < MaxGen /\ Tick /\ NoAppStep

SpecTick == InitTick /\ [][NextTick]_vars

NeighbourOffsets == ({-1, 0, 1} \X {-1, 0, 1}) \ {<<0, 0>>}

\* n(r, c): how many of the 8 positions ((r+dr) mod H, (c+dc) mod W) are alive
\* in a
LiveNeighbours(a, p, hh, ww) ==
    Cardinality({d \in NeighbourOffsets :
                    a[<<(p[1] + d[1]) % hh, (p[2] + d[2]) % ww>>] = 1})

\* C1: after a tick each cell is alive iff it was alive with n in survive or
\* dead with n in born, n counted on the grid before the tick over the 8
\* wrapped neighbour positions; for every shape (1 and 2 wide or high
\* included), grid content and rule.
C1_TickAppliesRule ==
    op.name = "tick" =>
        /\ DOMAIN grid = Cells(pre.h, pre.w)
        /\ \A p \in Cells(pre.h, pre.w) :
               LET n == LiveNeighbours(pre.grid, p, pre.h, pre.w)
               IN  grid[p] =
                       IF \/ (pre.grid[p] = 1 /\ n \in pre.survive)
                          \/ (pre.grid[p] = 0 /\ n \in pre.born)
                       THEN 1
                       ELSE 0

\* A tick on a 3 x 3 grid in which one cell died next to a cell that was born:
\* updating in place would have shown the second a changed neighbour.
C1_Witness ==
    /\ op.name = "tick"
    /\ w = 3 /\ h = 3
    /\ \E p \in Cells(h, w), q \in Cells(h, w) :
           /\ pre.grid[p] = 1 /\ grid[p] = 0
           /\ pre.grid[q] = 0 /\ grid[q] = 1
           /\ q[1] = p[1] /\ q[2] = p[2] + 1

\* The same on a grid one cell wide and two high, where neighbour positions
\* coincide.
C1_WitnessNarrow ==
    /\ op.name = "tick"
    /\ w = 1 /\ h = 2
    /\ SomeAlive(pre.grid)
    /\ grid # pre.grid

----------------------------------------------------------------------------
(* A single live cell at the origin *)

OriginRules == TickRules \cup { <<"/", "1">> }

InitOrigin ==
    /\ \E ww \in 3 .. MaxOriginDim, hh \in 3 .. MaxOriginDim :
           Construct(ww, hh)
    /\ History
    /\ NoApp

NextOrigin ==
    \/ \E r \in OriginRules : SetRules(r) /\ NoAppStep
    \/ ToggleCell(0, 0) /\ NoAppStep
    \/ generation < MaxGen /\ Tick /\ NoAppStep

SpecOrigin == InitOrigin /\ [][NextOrigin]_vars

OriginOnly(a) == \A p \in DOMAIN a : a[p] = 1 <=> p = <<0, 0>>

\* The eight cells <<row, col>> around the origin of a torus of hh rows and ww
\* columns
AroundOrigin(hh, ww) ==
    ({0, 1, hh - 1} \X {0, 1, ww - 1}) \ {<<0, 0>>}

\* C2: with W, H >= 3 and (0,0) the only live cell, tick's neighbour count is 1
\* at exactly the eight wrapped neighbours of the origin, (W-1,H-1), (W-1,0)
\* and (0,H-1) among them, and 0 elsewhere; so under survive = {}, born = {1}
\* one tick leaves exactly those eight alive.
C2_OriginWraps ==
    /\ OriginOnly(grid) =>
           /\ Cardinality(AroundOrigin(h, w)) = 8
           /\ \A p \in Cells(h, w) :
                  NCount(grid)[p] = IF p \in AroundOrigin(h, w) THEN 1 ELSE 0
    /\ (op.name = "tick" /\ OriginOnly(pre.grid)
            /\ pre.survive = {} /\ pre.born = {1}) =>
           \A p \in Cells(h, w) : grid[p] = 1 <=> p \in AroundOrigin(h, w)

\* The tick from the origin cell under /1 on a 5 x 4 grid: the far corner is
\* alive, the origin and the middle columns of the far rows are not.
C2_Witness ==
    /\ op.name = "tick"
    /\ OriginOnly(pre.grid)
    /\ pre.survive = {} /\ pre.born = {1}
    /\ w = 5 /\ h = 4
    /\ grid[<<h - 1, w - 1>>] = 1 /\ grid[<<0, w - 1>>] = 1 /\ grid[<<h - 1, 0>>] = 1
    /\ grid[<<0, 0>>] = 0 /\ grid[<<2, 2>>] = 0

----------------------------------------------------------------------------
(* The glider preset *)

\* glider(model)
Glider == ApplyCoords(GliderPreset.coords, GliderPreset.width, GliderPreset.height)

InitGlider ==
    /\ \E ww \in 5 .. MaxGliderDim, hh \in 5 .. MaxGliderDim : Construct(ww, hh)
    /\ History
    /\ NoApp

NextGlider ==
    \/ Glider /\ NoAppStep
    \/ generation < MaxGliderGen /\ Tick /\ NoAppStep

SpecGlider == InitGlider /\ [][NextGlider]_vars

Live(a) == {p \in DOMAIN a : a[p] = 1}

\* C8: under survive = {2,3}, born = {3}, four ticks after the glider preset
\* was loaded the live cells are the five loaded cells, each moved by one row
\* and one column, and generation is 4.
C8_GliderMoves ==
    (base.name = "apply_coords" /\ base.args = GliderPreset /\ base.ticks = 4
        /\ survive = {2, 3} /\ born = {3}) =>
        /\ Cardinality(Live(base.grid)) = 5
        /\ Live(grid) = {<<p[1] + 1, p[2] + 1>> : p \in Live(base.grid)}
        /\ generation = 4

\* Four ticks after the load on the smallest grid: the glider's top cell, loaded
\* at row 1, column 2, is at row 2, column 3.
C8_Witness ==
    /\ base.name = "apply_coords" /\ base.args = GliderPreset /\ base.ticks = 4
    /\ op.name = "tick"
    /\ w = 5 /\ h = 5
    /\ base.grid[<<1, 2>>] = 1
    /\ grid[<<2, 3>>] = 1
    /\ grid[<<1, 2>>] = 0

----------------------------------------------------------------------------
(* The block *)

\* The 2 x 2 block whose top left cell is <<r, c>>, wrapped at the edges
BlockCells(r, c, hh, ww) ==
    {<<r, c>>, <<r, (c + 1) % ww>>, <<(r + 1) % hh, c>>, <<(r + 1) % hh, (c + 1) % ww>>}

\* An engine under the default rule whose live cells are one block, at any
\* position (four toggle_cell calls put it there).
InitBlock ==
    /\ \E ww \in 4 .. MaxBlockDim, hh \in 4 .. MaxBlockDim :
       \E r \in 0 .. hh - 1, c \in 0 .. ww - 1 :
           /\ w = ww
           /\ h = hh
           /\ grid = [p \in Cells(hh, ww) |->
                         IF p \in BlockCells(r, c, hh, ww) THEN 1 ELSE 0]
           /\ survive = {2, 3}
           /\ born = {3}
           /\ generation = 0
    /\ History
    /\ NoApp

NextBlock == generation < MaxGen /\ Tick /\ NoAppStep

SpecBlock == InitBlock /\ [][NextBlock]_vars

IsBlock(a, hh, ww) ==
    \E r \in 0 .. hh - 1, c \in 0 .. ww - 1 : Live(a) = BlockCells(r, c, hh, ww)

\* C9: under the default rule a grid with W, H >= 4 whose live cells are one
\* 2 x 2 block has the same live cells after any number of ticks, wherever the
\* block is, across the wrapped edges too.
C9_BlockIsStill ==
    (IsBlock(base.grid, h, w) /\ survive = {2, 3} /\ born = {3}) =>
        /\ grid = base.grid
        /\ generation = base.ticks

\* Two ticks of the block that occupies the four corners of the grid.
C9_Witness ==
    /\ op.name = "tick"
    /\ base.ticks = 2
    /\ Live(base.grid) = BlockCells(h - 1, w - 1, h, w)
    /\ Live(grid) = {<<0, 0>>, <<0, w - 1>>, <<h - 1, 0>>, <<h - 1, w - 1>>}

----------------------------------------------------------------------------
(* The rule sets under set_rules with strings of decimal digits *)

\* Well-formed rule strings: digits on both sides of one slash.  int(c) takes
\* every decimal digit, 9 included.
DigitRuleInputs ==
    { RULE_PRESETS[1], <<"0", "8", "/", "8">>, <<"9", "/", "9">>,
      <<"2", "3", "/", "3", "9">> }

InitRules ==
    /\ \E s \in Shapes(MaxRuleCells) : Construct(s[1], s[2])
    /\ History
    /\ NoApp

NextRules ==
    \/ generation < MaxGen /\ Tick /\ NoAppStep
    \/ \E x \in 0 .. w - 1, y \in 0 .. h - 1 : ToggleCell(x, y) /\ NoAppStep
    \/ Reset /\ NoAppStep
    \/ \E r \in DigitRuleInputs : SetRules(r) /\ NoAppStep
    \/ ApplyCoords(DotPattern.coords, DotPattern.width, DotPattern.height) /\ NoAppStep

SpecRules == InitRules /\ [][NextRules]_vars

\* C11: after construction and any sequence of tick, toggle_cell, reset,
\* pattern loads and set_rules calls with well-formed 'S/B' strings of decimal
\* digits, survive and born hold only integers from 0 to 8.
C11_RuleSetsWithinZeroToEight ==
    /\ survive \subseteq 0 .. 8
    /\ born \subseteq 0 .. 8

----------------------------------------------------------------------------
(* The oscillator presets under tick() *)

OscillatorPresets == {BeaconPreset, PulsarPreset, PentadecathlonPreset}

InitOscillator ==
    /\ \E ww \in 18 .. MaxOscDim, hh \in 18 .. MaxOscDim : Construct(ww, hh)
    /\ History
    /\ NoApp

NextOscillator ==
    \/ \E o \in OscillatorPresets : ApplyCoords(o.coords, o.width, o.height) /\ NoAppStep
    \/ base.ticks < MaxOscTicks /\ Tick /\ NoAppStep

SpecOscillator == InitOscillator /\ [][NextOscillator]_vars

StandardRule == survive = {2, 3} /\ born = {3}

\* Since the load of preset, under the standard rule, the grid is the loaded
\* grid exactly after the multiples of period ticks.
ReturnsEvery(preset, period) ==
    (base.name = "apply_coords" /\ base.args = preset /\ StandardRule)
    => (grid = base.grid <=> base.ticks % period = 0)

\* C13 as stated: under the standard rule, on a grid large enough that the
\* pattern does not meet itself around the edges, each oscillator preset is
\* back at its loaded grid after its period and after no smaller positive
\* number of ticks: beacon 2, pulsar 3, pentadecathlon (row of 10) 15.
C13_OscillatorPeriods ==
    /\ ReturnsEvery(BeaconPreset, 2)
    /\ ReturnsEvery(PulsarPreset, 3)
    /\ ReturnsEvery(PentadecathlonPreset, 15)

\* C13, amended: the beacon and the pulsar are back at their loaded grid
\* exactly after the multiples of 2 and of 3 ticks.  The row of ten of the
\* pentadecathlon preset is a seed, not a phase: the loaded grid never comes
\* back, and from the second tick on the grid repeats every 15 ticks and after
\* no smaller positive number of ticks.
C13_OscillatorPeriodsAmended ==
    /\ ReturnsEvery(BeaconPreset, 2)
    /\ ReturnsEvery(PulsarPreset, 3)
    /\ (base.name = "apply_coords" /\ base.args = PentadecathlonPreset
        /\ StandardRule)
       => LET second == TickGrid(TickGrid(base.grid, survive, born),
                                 survive, born)
          IN  /\ base.ticks > 0 => grid # base.grid
              /\ base.ticks >= 2 =>
                     (grid = second <=> (base.ticks - 2) % 15 = 0)

\* 17 ticks after the load of the pentadecathlon the grid is the one of the
\* second tick, and not the row of ten.
C13_Witness ==
    /\ base.name = "apply_coords" /\ base.args = PentadecathlonPreset
    /\ StandardRule
    /\ base.ticks = 17
    /\ op.name = "tick"
    /\ grid = TickGrid(TickGrid(base.grid, survive, born), survive, born)
    /\ grid # base.grid
    /\ Cardinality({p \in DOMAIN base.grid : base.grid[p] = 1}) = 10

----------------------------------------------------------------------------
(* The five presets on the application's grid *)

AppPresets ==
    {BeaconPreset, GliderPreset, PulsarPreset, PentadecathlonPreset,
     GosperPreset}

\* Cells toggled between loads, so that a load starts from a grid with live
\* cells away from the pattern.
CornerCells == { <<0, 0>>, <<GRID_W - 1, GRID_H - 1>> }

InitPresets ==
    /\ Construct(GRID_W, GRID_H)
    /\ History
    /\ NoApp

NextPresets ==
    \/ \E q \in AppPresets : ApplyCoords(q.coords, q.width, q.height) /\ NoAppStep
    \/ \E c \in CornerCells : ToggleCell(c[1], c[2]) /\ NoAppStep
    \/ Reset /\ NoAppStep

SpecPresets == InitPresets /\ [][NextPresets]_vars

\* The cells a load of preset q writes, as <<row, column>> before any wrap
Written(q) ==
    { <<Origin(h, q.height) + q.coords[i][2], Origin(w, q.width) + q.coords[i][1]>> :
        i \in 1 .. Len(q.coords) }

\* C14: on the 100x80 grid, every offset of each of the five presets is inside
\* the preset's declared width x height box, so the load does not raise and
\* every write lands inside the grid at a non-negative index; after the load
\* the live cells are the written ones, and they number 5 for the glider, 10 in
\* a single row for the pentadecathlon and 36 for the Gosper glider gun.
C14_PresetsFitAppGrid ==
    \A q \in AppPresets :
        (op.name = "apply_coords" /\ op.args = q /\ w = 100 /\ h = 80) =>
            LET live == Live(grid)
            IN  /\ \A i \in 1 .. Len(q.coords) :
                       /\ q.coords[i][1] \in 0 .. q.width - 1
                       /\ q.coords[i][2] \in 0 .. q.height - 1
                /\ ~raised
                /\ Written(q) \subseteq (0 .. h - 1) \X (0 .. w - 1)
                /\ live = Written(q)
                /\ q = GliderPreset => Cardinality(live) = 5
                /\ q = PentadecathlonPreset =>
                       /\ Cardinality(live) = 10
                       /\ \E r \in 0 .. h - 1 : \A c \in live : c[1] = r
                /\ q = GosperPreset => Cardinality(live) = 36

\* The gun loaded over a grid that had the pulsar and a corner cell alive.
C14_Witness ==
    /\ op.name = "apply_coords" /\ op.args = GosperPreset
    /\ w = 100 /\ h = 80
    /\ Cardinality(Live(pre.grid)) = 49
    /\ Cardinality(Live(grid)) = 36
    /\ grid[<<40, 32>>] = 1
    /\ ~raised

----------------------------------------------------------------------------
(* GameApp: the side panel and its buttons *)

\* pygame.Rect(x, y, width, height)
Rect(x, y, rw, rh) == [x |-> x, y |-> y, w |-> rw, h |-> rh]

\* Rect.collidepoint(pos): the right and bottom edges are outside.
CollidePoint(r, pos) ==
    /\ r.x <= pos[1] /\ pos[1] < r.x + r.w
    /\ r.y <= pos[2] /\ pos[2] < r.y + r.h

\* self.panel_rect
PanelRect ==
    Rect(GRID_W * CELL_SIZE, 0, WINDOW_W - GRID_W * CELL_SIZE, WINDOW_H)

\* self.buttons, in the order _create_buttons appends them: the rectangle, the
\* callback, and for a rule button its index in RULE_PRESETS.
Buttons ==
    << [rect |-> Rect(PanelRect.x + 10, 10, 180, 30),
        callback |-> "_toggle_run", rule |-> 0],
       [rect |-> Rect(PanelRect.x + 10, 50, 180, 30),
        callback |-> "reset", rule |-> 0],
       [rect |-> Rect(PanelRect.x + 10, 90, 80, 30),
        callback |-> "_inc_speed", rule |-> 0],
       [rect |-> Rect(PanelRect.x + 110, 90, 80, 30),
        callback |-> "_dec_speed", rule |-> 0] >>
    \o [i \in 1 .. Len(RULE_PRESETS) |->
           [rect |-> Rect(PanelRect.x + 10, 130 + (i - 1) * 40, 180, 30),
            callback |-> "_set_rule", rule |-> i]]
    \o << [rect |-> Rect(PanelRect.x + (PanelRect.w - 200),
                         PanelRect.y + PanelRect.h - 100, 180, 50),
           callback |-> "_back_to_menu", rule |-> 0] >>

\* The buttons a left click at pos triggers
Hit(pos) == {i \in DOMAIN Buttons : CollidePoint(Buttons[i].rect, pos)}

\* A point inside button i
Inside(i) == <<Buttons[i].rect.x + 5, Buttons[i].rect.y + 5>>

----------------------------------------------------------------------------
(* GameApp: callbacks *)

\* No call on the engine
Quiet == UNCHANGED <<engineVars, historyVars>>

\* The text _toggle_run and _create_buttons give the first button
RunText(r) == IF r THEN "PAUSE" ELSE "START"

\* _toggle_run()
ToggleRun ==
    /\ running' = ~running
    /\ startText' = RunText(~running)
    /\ UNCHANGED <<speed, selected, pc>>
    /\ Quiet

\* min(60, self.speed + 1)
IncSpeedValue(s) == IF s + 1 < 60 THEN s + 1 ELSE 60

\* Mutant: the limit is not applied.
DecUnclamped(s) == s - 1

\* max(1, self.speed - 1)
DecSpeedValue(s) == IF s - 1 > 1 THEN s - 1 ELSE 1

\* _inc_speed()
IncSpeed ==
    /\ speed' = IncSpeedValue(speed)
    /\ UNCHANGED <<running, startText, selected, pc>>
    /\ Quiet

\* _dec_speed()
DecSpeed ==
    /\ speed' = DecSpeedValue(speed)
    /\ UNCHANGED <<running, startText, selected, pc>>
    /\ Quiet

\* Mutant: the marks of the other buttons are left as they were.
SelectAlso(sel, i) == [sel EXCEPT ![i] = TRUE]

\* btn.selected = (btn.text == rule) over the rule buttons
SelectOnly(sel, i) ==
    [j \in DOMAIN sel |-> RULE_PRESETS[j] = RULE_PRESETS[i]]

\* _set_rule(rule), rule being RULE_PRESETS[i]; an exception of set_rules
\* leaves run()
SetRule(i) ==
    /\ SetRules(RULE_PRESETS[i])
    /\ selected' = IF raised' THEN selected ELSE SelectOnly(selected, i)
    /\ pc' = IF raised' THEN "raised" ELSE pc
    /\ UNCHANGED <<running, startText, speed>>

\* _back_to_menu(): the window is closed and the menu takes over
BackToMenu ==
    /\ pc' = "menu"
    /\ UNCHANGED <<running, startText, speed, selected>>
    /\ Quiet

\* Button.handle_event on a left click inside the button: self.callback()
Press(b) ==
    CASE b.callback = "_toggle_run" -> ToggleRun
      [] b.callback = "reset" ->
             Reset /\ UNCHANGED <<running, startText, speed, selected, pc>>
      [] b.callback = "_inc_speed" -> IncSpeed
      [] b.callback = "_dec_speed" -> DecSpeed
      [] b.callback = "_set_rule" -> SetRule(b.rule)
      [] b.callback = "_back_to_menu" -> BackToMenu

----------------------------------------------------------------------------
(* GameApp.__init__ *)

\* Mutant: the pattern is applied before the rule.
CtorOrderPatternFirst == <<"init_pattern", "init_rules", "init_fields">>

\* The order of the statements of __init__ after the engine is made: the
\* rule, the pattern, then the fields and buttons of the application.
CtorOrder == <<"init_rules", "init_pattern", "init_fields">>

\* Where the application is after step s of __init__: run() follows the last.
StepAfter(s) ==
    LET i == CHOOSE k \in 1 .. Len(CtorOrder) : CtorOrder[k] = s
    IN  IF i = Len(CtorOrder) THEN "events" ELSE CtorOrder[i + 1]

\* GameApp(initial_pattern, initial_rule_str), up to
\* self.model = GameOfLifeModel(GRID_W, GRID_H); no pattern is NoPattern, no
\* rule (None or '') is <<>>.
AppInit(ctors) ==
    /\ Construct(GRID_W, GRID_H)
    /\ History
    /\ ctor \in ctors
    /\ pc = CtorOrder[1]
    /\ running = FALSE
    /\ speed = 0
    /\ accumulator = 0
    /\ selected = <<>>
    /\ startText = ""
    /\ pending = NoPending
    /\ frameTicks = 0

\* if initial_rule_str: self.model.set_rules(initial_rule_str)
CtorRules ==
    /\ pc = "init_rules"
    /\ IF ctor.rule # <<>> THEN SetRules(ctor.rule) ELSE Quiet
    /\ pc' = IF raised' THEN "raised" ELSE StepAfter(pc)
    /\ UNCHANGED <<running, speed, accumulator, selected, startText, pending,
                   frameTicks, ctor>>

\* if initial_pattern: initial_pattern(self.model)
CtorPattern ==
    /\ pc = "init_pattern"
    /\ IF ctor.pattern # NoPattern
       THEN ApplyCoords(ctor.pattern.coords, ctor.pattern.width,
                        ctor.pattern.height)
       ELSE Quiet
    /\ pc' = IF raised' THEN "raised" ELSE StepAfter(pc)
    /\ UNCHANGED <<running, speed, accumulator, selected, startText, pending,
                   frameTicks, ctor>>

\* The button of RULE_PRESETS[i] is marked when the survive side of its text
\* is the engine's survive set.
SelectedAtStart ==
    [i \in 1 .. Len(RULE_PRESETS) |->
        survive = DigitSet(Split(RULE_PRESETS[i])[1])]

\* self.running = False; self.speed = 10; _create_buttons(); then run()
\* begins with accumulator = 0.0
CtorFields ==
    /\ pc = "init_fields"
    /\ running' = FALSE
    /\ speed' = 10
    /\ startText' = RunText(FALSE)
    /\ selected' = SelectedAtStart
    /\ accumulator' = 0
    /\ pc' = StepAfter(pc)
    /\ Quiet
    /\ UNCHANGED <<pending, frameTicks, ctor>>

----------------------------------------------------------------------------
(* GameApp.run: one frame is the events, the update, the drawing *)

\* Events pygame delivers
Quit == [type |-> "QUIT", pos |-> <<0, 0>>, button |-> 0]

MouseDown(pos, button) ==
    [type |-> "MOUSEBUTTONDOWN", pos |-> pos, button |-> button]

LeftClick(pos) == MouseDown(pos, 1)

\* An event that changes nothing
Idle ==
    /\ UNCHANGED <<running, startText, speed, selected, pc>>
    /\ Quiet

\* Mutant: self.running is not tested.
OnGridAnyTime(e) == e.button = 1 /\ e.pos[1] < GRID_W * CELL_SIZE

\* The test of run() for a click on a cell
OnGrid(e) == ~running /\ e.button = 1 /\ e.pos[1] < GRID_W * CELL_SIZE

\* A mouse button pressed at e.pos.  The cell under a left click is toggled
\* when the game is paused and the click is left of the panel; then every
\* button is offered the event.  No button reaches into the grid area and no
\* two buttons overlap, so at most one of these acts.
Click(e) ==
    LET onGrid == OnGrid(e)
        hit    == IF e.button = 1 THEN Hit(e.pos) ELSE {}
    IN  /\ ~(onGrid /\ hit # {})
        /\ Cardinality(hit) <= 1
        /\ IF onGrid
           THEN /\ ToggleCell(e.pos[1] \div CELL_SIZE, e.pos[2] \div CELL_SIZE)
                /\ UNCHANGED <<running, startText, speed, selected, pc>>
           ELSE IF hit = {}
                THEN Idle
                ELSE Press(Buttons[CHOOSE i \in hit : TRUE])

\* The body of the loop over pygame.event.get() for one event
HandleEvent(e) ==
    /\ pc = "events"
    /\ UNCHANGED <<accumulator, pending, frameTicks, ctor>>
    /\ CASE e.type = "QUIT" ->
                /\ pc' = "exit"
                /\ UNCHANGED <<running, startText, speed, selected>>
                /\ Quiet
         [] e.type = "MOUSEBUTTONDOWN" -> Click(e)
         [] OTHER -> Idle

\* Mutant: the grid is drawn between the two writes of tick().
AfterClearDraw == "draw"

\* Where the application is after self.grid[:] = 0: still inside tick()
AfterClear == "tick_write"

\* The mask surv | born of tick(), as the set of its cells
TickMask(a, surv, brn) ==
    LET t == TickGrid(a, surv, brn)
    IN  {p \in DOMAIN a : t[p] = 1}

\* self.grid[surv | born] = 1
WriteMask(a, mask) == [p \in DOMAIN a |-> IF p \in mask THEN 1 ELSE a[p]]

\* tick() up to self.grid[:] = 0, called by run() with the accumulator at acc
TickBegin(acc) ==
    /\ generation < MaxAppGen
    /\ pending' = [mask |-> TickMask(grid, survive, born), busy |-> TRUE]
    /\ grid' = Fill(grid, 0)
    /\ accumulator' = acc
    /\ frameTicks' = frameTicks + 1
    /\ pc' = AfterClear
    /\ op' = [name |-> "tick", args |-> <<>>]
    /\ pre' = Fields
    /\ raised' = FALSE
    /\ UNCHANGED <<w, h, survive, born, generation, ticks, base>>

\* Mutant: the simulation is advanced whether the game is running or not.
SimulatingAlways == TRUE

\* if self.running:
Simulating == running

\* The update of the simulation after the events of the frame, dt
\* milliseconds after the last frame: accumulator >= 1.0 / self.speed is
\* accumulator * speed >= 1000 in milliseconds.
Update(dt) ==
    /\ pc = "events"
    /\ IF Simulating
       THEN LET acc == accumulator + dt
            IN  IF acc * speed >= 1000
                THEN TickBegin(acc)
                ELSE /\ accumulator' = acc
                     /\ pc' = "draw"
                     /\ Quiet
                     /\ UNCHANGED <<pending, frameTicks>>
       ELSE /\ pc' = "draw"
            /\ Quiet
            /\ UNCHANGED <<accumulator, pending, frameTicks>>
    /\ UNCHANGED <<running, speed, selected, startText, ctor>>

\* The rest of tick(): self.grid[surv | born] = 1; self.generation += 1; then
\* run() sets accumulator = 0.0
TickWrite ==
    /\ pc = "tick_write"
    /\ grid' = WriteMask(grid, pending.mask)
    /\ generation' = NextGeneration(generation)
    /\ ticks' = ticks + 1
    /\ base' = [base EXCEPT !.ticks = @ + 1]
    /\ pending' = NoPending
    /\ accumulator' = 0
    /\ pc' = "draw"
    /\ UNCHANGED <<w, h, survive, born, op, pre, raised, running, speed,
                   selected, startText, frameTicks, ctor>>

\* _draw(), then the next frame
Draw ==
    /\ pc = "draw"
    /\ pc' = "events"
    /\ frameTicks' = 0
    /\ Quiet
    /\ UNCHANGED <<running, speed, accumulator, selected, startText, pending,
                   ctor>>

----------------------------------------------------------------------------
(* The frame loop around the engine *)

NoArguments == [pattern |-> NoPattern, rule |-> <<>>]

\* The application as the menu starts it with the glider
LoopCtors == { [pattern |-> GliderPreset, rule |-> <<>>] }

\* Left clicks on START/PAUSE, RESET, the second rule button and a cell, and
\* the window being closed
LoopEvents ==
    { LeftClick(Inside(1)), LeftClick(Inside(2)), LeftClick(Inside(6)),
      LeftClick(<<20, 20>>), Quit }

\* Milliseconds between frames: at speed 10 a tick is due every second frame.
LoopDts == {60}

InitLoop == AppInit(LoopCtors)

NextLoop ==
    \/ CtorRules
    \/ CtorPattern
    \/ CtorFields
    \/ \E e \in LoopEvents : HandleEvent(e)
    \/ \E dt \in LoopDts : Update(dt)
    \/ TickWrite
    \/ Draw

SpecLoop == InitLoop /\ [][NextLoop]_vars

\* after is the whole next generation of before under the rule surv / brn
WholeTick(before, after, surv, brn) ==
    \A p \in DOMAIN before :
        LET n == LiveNeighbours(before, p, h, w)
        IN  after[p] = IF \/ (before[p] = 1 /\ n \in surv)
                          \/ (before[p] = 0 /\ n \in brn)
                       THEN 1
                       ELSE 0

\* C12: no partly ticked grid is ever seen.  While the grid is between the
\* two writes of tick() the application is inside tick(), where neither the
\* drawing nor an event handler runs; when the events are handled or the grid
\* is drawn, no tick is under way, and the grid drawn in a frame that ticked
\* is the whole next generation of the grid before the tick, never the
\* all-dead grid in between.
C12_NoPartialTickSeen ==
    /\ pending.busy => pc = "tick_write"
    /\ pc \in {"events", "draw"} => ~pending.busy
    /\ (pc = "draw" /\ frameTicks > 0) =>
           /\ op.name = "tick"
           /\ WholeTick(pre.grid, grid, pre.survive, pre.born)

\* The glider is drawn one tick on: five cells, not the five loaded and not
\* the empty grid of the moment between the writes.
C12_Witness ==
    /\ pc = "draw"
    /\ op.name = "tick"
    /\ ctor.pattern = GliderPreset
    /\ generation = 1
    /\ Cardinality(Live(pre.grid)) = 5
    /\ Cardinality(Live(grid)) = 5
    /\ grid # pre.grid
    /\ ~pending.busy

----------------------------------------------------------------------------
(* Mouse clicks on the grid area *)

\* Pixels clicked: the last pixel of cell (0, 0), the first pixel of the next
\* column in the last pixel row of the grid, the last pixel column of the grid
\* in the first pixel row of the strip below it, and the first pixel column of
\* the panel
ClickPositions ==
    { <<14, 14>>, <<15, 1199>>, <<1499, 1200>>, <<1500, 600>> }

\* Left clicks on those pixels and on START/PAUSE, and a right click on a cell
ClickEvents ==
    {LeftClick(pos) : pos \in ClickPositions}
        \cup {LeftClick(Inside(1)), MouseDown(<<20, 20>>, 3)}

ClickDts == {60}

InitClicks == AppInit({NoArguments})

NextClicks ==
    \/ CtorRules
    \/ CtorPattern
    \/ CtorFields
    \/ \E e \in ClickEvents : HandleEvent(e)
    \/ \E dt \in ClickDts : Update(dt)
    \/ TickWrite
    \/ Draw

SpecClicks == InitClicks /\ [][NextClicks]_vars

\* a with the value of cell <<row, col>> flipped and every other cell as it was
Flipped(a, row, col) ==
    [p \in DOMAIN a |-> IF p = <<row, col>> THEN 1 - a[p] ELSE a[p]]

\* C16: a click toggles a cell only while the game is paused.  Handling a left
\* click at (px, py) with px < 1500: while running no cell changes; while
\* paused exactly cell (px div 15, py div 15) is flipped when py div 15 < 80,
\* and nothing changes in the strip below the grid (py >= 1200).  A click of
\* another mouse button changes no cell.
C16_ClickTogglesWhilePaused ==
    [][/\ \A pos \in ClickPositions :
              (pos[1] < 1500 /\ HandleEvent(LeftClick(pos))) =>
                  IF running
                  THEN grid' = grid
                  ELSE IF pos[2] \div 15 < 80
                       THEN grid' = Flipped(grid, pos[2] \div 15, pos[1] \div 15)
                       ELSE grid' = grid /\ pos[2] >= 1200
       /\ HandleEvent(MouseDown(<<20, 20>>, 3)) => grid' = grid
      ]_vars

\* Paused, the click on pixel (15, 1199) has turned cell (1, 79) on.
C16_Witness ==
    /\ pc = "events"
    /\ ~running
    /\ op = [name |-> "toggle_cell", args |-> <<1, 79>>]
    /\ pre.grid[<<79, 1>>] = 0
    /\ grid = Flipped(pre.grid, 79, 1)

----------------------------------------------------------------------------
(* Running and paused frames *)

\* The events of LoopEvents that may change the grid while the game is paused:
\* a click on a cell, on RESET, on a rule button
GridChangers == LoopEvents \ {LeftClick(Inside(1)), Quit}

\* C17: in the loop of run(), a tick starts only in a frame where running is
\* true and at most once per frame.  While paused the generation does not go
\* up, and the grid changes only by a click on a cell, on RESET or on a rule
\* button.  A click on START/PAUSE flips running and leaves the grid, the
\* generation and the rule as they were.
C17_TicksOnlyWhileRunning ==
    [][/\ frameTicks' <= 1
       /\ (pc # "tick_write" /\ pc' = "tick_write") =>
              running /\ frameTicks = 0
       /\ generation' > generation => running
       /\ (pc \in {"events", "draw"} /\ ~running) =>
              /\ generation' <= generation
              /\ grid' # grid => \E e \in GridChangers : HandleEvent(e)
       /\ HandleEvent(LeftClick(Inside(1))) =>
              /\ running' = ~running
              /\ grid' = grid
              /\ generation' = generation
              /\ survive' = survive /\ born' = born
      ]_vars

\* Paused after one tick, a cell was toggled: the generation is still 1.
C17_Witness ==
    /\ pc = "events"
    /\ ~running
    /\ startText = "START"
    /\ generation = 1
    /\ op.name = "toggle_cell"
    /\ pre.generation = 1
    /\ grid # pre.grid

----------------------------------------------------------------------------
(* The speed buttons *)

\* Left clicks on "+ Speed", "- Speed" and START/PAUSE
SpeedEvents == {LeftClick(Inside(3)), LeftClick(Inside(4)), LeftClick(Inside(1))}

\* A second between frames: a tick is due in every running frame, whatever
\* the speed.
SpeedDts == {1000}

InitSpeed == AppInit({NoArguments})

NextSpeed ==
    \/ CtorRules
    \/ CtorPattern
    \/ CtorFields
    \/ \E e \in SpeedEvents : HandleEvent(e)
    \/ \E dt \in SpeedDts : Update(dt)
    \/ TickWrite
    \/ Draw

SpecSpeed == InitSpeed /\ [][NextSpeed]_vars

\* C18: the speed starts at 10 and stays within 1 .. 60.  A click on
\* "+ Speed" adds exactly 1 unless the speed is 60, a click on "- Speed" takes
\* exactly 1 off unless it is 1, and otherwise they leave it; neither changes
\* the grid, the generation, the rule or running.
C18_SpeedWithinLimits ==
    [][/\ (pc = "init_fields" /\ pc' = "events") => speed' = 10
       /\ pc' \in {"events", "tick_write", "draw"} => speed' \in 1 .. 60
       /\ HandleEvent(LeftClick(Inside(3))) =>
              /\ speed' = IF speed = 60 THEN 60 ELSE speed + 1
              /\ UNCHANGED <<grid, generation, survive, born, running>>
       /\ HandleEvent(LeftClick(Inside(4))) =>
              /\ speed' = IF speed = 1 THEN 1 ELSE speed - 1
              /\ UNCHANGED <<grid, generation, survive, born, running>>
      ]_vars

\* The speed has been taken to its lower limit while the game runs.
C18_Witness ==
    /\ pc = "events"
    /\ speed = 1
    /\ running
    /\ generation = 1

----------------------------------------------------------------------------
(* Construction of the application with a rule and a pattern *)

\* initial_rule_str: none, a preset, and two rules that are no preset
CtorRuleInputs ==
    { <<>>, RULE_PRESETS[2], <<"2", "3", "/", "3", "6">>, <<"/", "2">> }

\* GameApp(initial_pattern, initial_rule_str) for every preset and no pattern
\* with every rule of CtorRuleInputs
CtorInputs ==
    { [pattern |-> q, rule |-> r] :
        q \in AppPresets \cup {NoPattern}, r \in CtorRuleInputs }

\* Left click on START/PAUSE, and the window being closed
CtorEvents == {LeftClick(Inside(1)), Quit}

CtorDts == {100}

InitCtor == AppInit(CtorInputs)

NextCtor ==
    \/ CtorRules
    \/ CtorPattern
    \/ CtorFields
    \/ \E e \in CtorEvents : HandleEvent(e)
    \/ \E dt \in CtorDts : Update(dt)
    \/ TickWrite
    \/ Draw

SpecCtor == InitCtor /\ [][NextCtor]_vars

\* C19: the constructor applies the initial rule before the initial pattern.
\* When it returns, survive and born are the requested ones (the standard
\* ones when no rule was asked), exactly the cells of the pattern, centred,
\* are alive (none when no pattern was asked), the generation is 0 and
\* running is false; so with both given the pattern is not wiped by the reset
\* of set_rules.
C19_RuleBeforePattern ==
    [][/\ pc = "init_pattern" => pc' # "init_rules"
       /\ (pc \in {"init_rules", "init_pattern", "init_fields"}
           /\ pc' = "events") =>
              /\ IF ctor.rule = <<>>
                 THEN survive' = {2, 3} /\ born' = {3}
                 ELSE /\ survive' = DigitsAt(ctor.rule,
                                             1 .. SlashAt(ctor.rule) - 1)
                      /\ born' = DigitsAt(ctor.rule,
                                          SlashAt(ctor.rule) + 1 .. Len(ctor.rule))
              /\ IF ctor.pattern = NoPattern
                 THEN Live(grid') = {}
                 ELSE Live(grid') = Written(ctor.pattern)
              /\ generation' = 0
              /\ running' = FALSE
      ]_vars

\* Constructed with the rule 234/34 and the gun: both are there.
C19_Witness ==
    /\ pc = "events"
    /\ ctor = [pattern |-> GosperPreset, rule |-> RULE_PRESETS[2]]
    /\ survive = {2, 3, 4} /\ born = {3, 4}
    /\ op.name = "apply_coords"
    /\ Cardinality(Live(grid)) = 36
    /\ generation = 0
    /\ ~running

----------------------------------------------------------------------------
(* The rule buttons *)

\* The application as the menu starts it: empty, or with a preset
MenuCtors == { NoArguments, [pattern |-> BeaconPreset, rule |-> <<>>] }

\* Left clicks on the four rule buttons and on START/PAUSE
RuleButtonEvents ==
    {LeftClick(Inside(4 + i)) : i \in 1 .. Len(RULE_PRESETS)}
        \cup {LeftClick(Inside(1))}

RuleButtonDts == {100}

InitRuleButtons == AppInit(MenuCtors)

NextRuleButtons ==
    \/ CtorRules
    \/ CtorPattern
    \/ CtorFields
    \/ \E e \in RuleButtonEvents : HandleEvent(e)
    \/ \E dt \in RuleButtonDts : Update(dt)
    \/ TickWrite
    \/ Draw

SpecRuleButtons == InitRuleButtons /\ [][NextRuleButtons]_vars

\* C20: in a game started from the menu (no initial rule, with or without a
\* preset), once the buttons exist, exactly one rule button is marked as
\* selected, and the digits before and after the slash of its text are the
\* survive and born sets in effect.
C20_OneRuleButtonSelected ==
    (ctor.rule = <<>> /\ pc \in {"events", "tick_write", "draw", "exit", "menu"})
    => /\ Cardinality({i \in DOMAIN selected : selected[i]}) = 1
       /\ \A i \in DOMAIN selected :
              selected[i] =>
                  LET r == RULE_PRESETS[i]
                  IN  /\ survive = DigitsAt(r, 1 .. SlashAt(r) - 1)
                      /\ born = DigitsAt(r, SlashAt(r) + 1 .. Len(r))

\* After 234/34 and then 245/368 were chosen, only the fourth button is marked.
C20_Witness ==
    /\ pc = "events"
    /\ ctor.rule = <<>>
    /\ op = [name |-> "set_rules", args |-> RULE_PRESETS[4]]
    /\ pre.survive = {2, 3, 4}
    /\ selected = <<FALSE, FALSE, FALSE, TRUE>>
    /\ survive = {2, 4, 5} /\ born = {3, 6, 8}

----------------------------------------------------------------------------
(* set_rules with strings it cannot parse *)

\* Rule strings that make set_rules raise: no slash, two slashes, a character
\* that is not a digit before the slash, and one after it.
MalformedRuleInputs ==
    { <<"2", "3">>, <<"2", "/", "3", "/", "3">>, <<"x", "/", "3">>,
      <<"4", "5", "/", "x">>, <<"/", "3", "x">> }

InitMalformed ==
    /\ \E s \in Shapes(MaxRuleCells) : Construct(s[1], s[2])
    /\ History
    /\ NoApp

NextMalformed ==
    \/ generation < MaxGen /\ Tick /\ NoAppStep
    \/ \E x \in 0 .. w - 1, y \in 0 .. h - 1 : ToggleCell(x, y) /\ NoAppStep
    \/ Reset /\ NoAppStep
    \/ SetRules(RULE_PRESETS[2]) /\ NoAppStep
    \/ \E r \in MalformedRuleInputs : SetRules(r) /\ NoAppStep

SpecMalformed == InitMalformed /\ [][NextMalformed]_vars

\* C21: a set_rules call that raises (no slash, more than one slash, or a
\* character that is not a digit on either side of the slash) leaves survive,
\* born, the grid and generation exactly as they were before the call.
C21_SetRulesAllOrNothing ==
    (op.name = "set_rules" /\ raised) =>
        /\ survive = pre.survive
        /\ born = pre.born
        /\ grid = pre.grid
        /\ generation = pre.generation

====
